---- MODULE Spec2Model ----
(***************************************************************************)
(* The alert extraction, flow correlation and enrichment engine of         *)
(* src/Ai.py (parse_snort_and_correlate, get_ml_scores_from_zeek) with the *)
(* report table of src/app.py, as a state machine.                         *)
(*                                                                         *)
(* Text is modelled character by character: a Python str is a sequence of  *)
(* one-character strings, and split, strip, re.findall and re.search work  *)
(* on the characters.  The alert file holds what the sensor wrote; its     *)
(* bytes are Text(alertFile).                                              *)
(***************************************************************************)
EXTENDS Integers, Sequences, FiniteSets, TLC

VARIABLES
    alertFile,        \* SNORT_LOG_PATH: Missing, or the lines the sensor wrote
    zeekLog,          \* ZEEK_LOG_PATH: Missing, or the flow rows under the #fields header
    model,            \* REAL_MODEL_PIPELINE, loaded once at import
    pc,               \* where the invocation of parse_snort_and_correlate stands
    ml_lookup,        \* local of the invocation: the score table
    enriched_alerts,  \* local of the invocation: alerts in file order
    result            \* what the invocation returned, or the exception it raised

vars == <<alertFile, zeekLog, model, pc, ml_lookup, enriched_alerts, result>>

\* ------------------------------------------------------------------ bounds

MaxWrites == 2
MaxRows == 2
MaxKeyedWrites == 7
NumKeys == 6
MaxBursts == 2
BurstSize == 60

\* --------------------------------------------------------- program constants

TopK == 5
DisplayLimit == 100

\* --------------------------------------------------------------- characters

IP_A == <<"1","0",".","0",".","0",".","5">>
IP_B == <<"1","0",".","0",".","0",".","9">>
DELIM == <<"[","*","*","]">>
TS_1 == <<"1","0","/","0","5","-","1","4",":","2","2",":","0","1">>
TS_2 == <<"1","0","/","0","5","-","1","4",":","2","3",":","0","7">>
SID_MSG_SCAN == <<" ","[","1",":","9","9","9",":","1","]"," ","P","o","s","s","i","b","l","e"," ","S","c","a","n"," ">>
SID_MSG_FLOOD == <<" ","[","1",":","1","0","0","0",":","2","]"," ","F","l","o","o","d"," ">>
PROTO == <<" ","{","T","C","P","}"," ">>
ARROW == <<" ","-",">"," ">>
NL == <<"\n">>
SP == <<" ">>
COLON == <<":">>
DASH == <<"-">>
DOT == <<".">>
PRIORITY == <<"\n","[","P","r","i","o","r","i","t","y",":"," ","0","]","\n">>
TTL == <<"\n","T","C","P"," ","T","T","L",":","6","4","\n","\n">>
NOISE == <<"B","o","u","n","d"," ","t","o"," ">>
PORT_443 == <<"4","4","3">>
PORT_80 == <<"8","0">>
NO_PORT == <<>>
DIGITS == <<"0","1","2","3","4","5","6","7","8","9">>

NO_FLOW_SCORE == <<"0",".","4","2">>
UNKNOWN == <<"U","n","k","n","o","w","n">>
ZERO == <<"0">>
ALERT == <<"A","L","E","R","T">>

\* Python's None: no text is this value (a text holds one-character strings).
None == <<"None">>

IsDigit(c) == c \in {"0","1","2","3","4","5","6","7","8","9"}
IsSpace(c) == c \in {" ", "\n", "\t", "\r"}

\* The least and the greatest index of lo..hi satisfying P, 0 when there is none.
First(P(_), lo, hi) ==
    IF \E i \in lo..hi : P(i)
    THEN CHOOSE i \in lo..hi : P(i) /\ \A j \in lo..(i-1) : ~P(j)
    ELSE 0

Last(P(_), lo, hi) ==
    IF \E i \in lo..hi : P(i)
    THEN CHOOSE i \in lo..hi : P(i) /\ \A j \in (i+1)..hi : ~P(j)
    ELSE 0

Min2(a, b) == IF a <= b THEN a ELSE b

\* s[::-1]
Reversed(s) == [i \in 1..Len(s) |-> s[Len(s) - i + 1]]

\* s[:n]
Prefix(s, n) == SubSeq(s, 1, Min2(n, Len(s)))

\* ------------------------------------------------------- regular expressions

RECURSIVE DigitRun(_, _, _, _)
\* How many digits a greedy \d{1,cap} (or \d+, cap = hi - i + 1) takes from t[i..hi].
DigitRun(t, i, hi, cap) ==
    IF cap = 0 \/ i > hi \/ ~IsDigit(t[i]) THEN 0
    ELSE 1 + DigitRun(t, i + 1, hi, cap - 1)

CharAt(t, i, hi, c) == i <= hi /\ t[i] = c

\* r'(\d{1,3}(?:\.\d{1,3}){3})' tried at i within t[..hi]: the length of the match,
\* 0 when there is none.  A greedy group followed by "\." cannot match with fewer
\* digits (the next character would be a digit), so no backtracking is needed.
IpMatchLen(t, i, hi) ==
    LET r1 == DigitRun(t, i, hi, 3)
        i2 == i + r1 + 1
        r2 == DigitRun(t, i2, hi, 3)
        i3 == i2 + r2 + 1
        r3 == DigitRun(t, i3, hi, 3)
        i4 == i3 + r3 + 1
        r4 == DigitRun(t, i4, hi, 3)
    IN  IF /\ r1 >= 1 /\ CharAt(t, i + r1, hi, ".")
           /\ r2 >= 1 /\ CharAt(t, i2 + r2, hi, ".")
           /\ r3 >= 1 /\ CharAt(t, i3 + r3, hi, ".")
           /\ r4 >= 1
        THEN i4 + r4 - i
        ELSE 0

\* r'(\d+:\d+:\d+)' tried at i: the length of the match, 0 when there is none.
SidMatchLen(t, i, hi) ==
    LET r1 == DigitRun(t, i, hi, hi - i + 1)
        i2 == i + r1 + 1
        r2 == DigitRun(t, i2, hi, hi - i2 + 1)
        i3 == i2 + r2 + 1
        r3 == DigitRun(t, i3, hi, hi - i3 + 1)
    IN  IF /\ r1 >= 1 /\ CharAt(t, i + r1, hi, ":")
           /\ r2 >= 1 /\ CharAt(t, i2 + r2, hi, ":")
           /\ r3 >= 1
        THEN i3 + r3 - i
        ELSE 0

\* r'(\d{2}/\d{2}-\d{2}:\d{2}:\d{2})' tried at i: 14 when it matches, else 0.
TsMatchLen(t, i, hi) ==
    IF /\ i + 13 <= hi
       /\ \A k \in {0, 1, 3, 4, 6, 7, 9, 10, 12, 13} : IsDigit(t[i + k])
       /\ t[i + 2] = "/" /\ t[i + 5] = "-" /\ t[i + 8] = ":" /\ t[i + 11] = ":"
    THEN 14
    ELSE 0

\* re.search(pattern, b): where the leftmost match starts in t[lo..hi], 0 when none.
SearchIp(t, lo, hi) == First(LAMBDA i : IpMatchLen(t, i, hi) > 0, lo, hi)
SearchSid(t, lo, hi) == First(LAMBDA i : SidMatchLen(t, i, hi) > 0, lo, hi)
SearchTs(t, lo, hi) == First(LAMBDA i : TsMatchLen(t, i, hi) > 0, lo, hi)

\* --------------------------------------------------------------- the lookup

\* dict.get(key): the entry, or None.
DictGet(d, key) == IF key \in DOMAIN d THEN d[key] ELSE None

\* a.get(key, default) on an alert.
GetOr(a, key, default) == IF key \in DOMAIN a THEN a[key] ELSE default

\* Truthy as it would be were the scores numbers: 0.00 is false too.
TruthyOfNumber(v) == v # None /\ v # <<>> /\ v # <<"0",".","0","0">>

\* bool(v) of a str or None: only None and the empty string are false.
Truthy(v) == v # None /\ v # <<>>

\* a or b
PyOr(a, b) == IF Truthy(a) THEN a ELSE b

\* f"{a}-{b}"
HostPairKey(a, b) == a \o DASH \o b

\* ml_lookup.get(f"{src}-{dst}") or ml_lookup.get(f"{dst}-{src}") or "0.42"
ScoreFor(lookup, src, dst) ==
    PyOr(PyOr(DictGet(lookup, HostPairKey(src, dst)),
              DictGet(lookup, HostPairKey(dst, src))),
         NO_FLOW_SCORE)

\* ------------------------------------------------------- the blocks of a text

DelimAt(t, i) ==
    /\ i + 3 <= Len(t)
    /\ t[i] = "[" /\ t[i + 1] = "*" /\ t[i + 2] = "*" /\ t[i + 3] = "]"

RECURSIVE DelimSeq(_, _, _)
\* Where "[**]" occurs in t[lo..hi], in increasing order.  Two occurrences never
\* overlap, so these are the places str.split('[**]') cuts at.
DelimSeq(t, lo, hi) ==
    IF lo > hi THEN <<>>
    ELSE IF lo = hi THEN (IF DelimAt(t, lo) THEN <<lo>> ELSE <<>>)
    ELSE LET m == (lo + hi) \div 2
         IN  DelimSeq(t, lo, m) \o DelimSeq(t, m + 1, hi)

\* blocks = raw_content.split('[**]'): block k is t[BlockLo..BlockHi], k in 1..Len(ds)+1.
BlockLo(ds, k) == IF k = 1 THEN 1 ELSE ds[k - 1] + 4
BlockHi(t, ds, k) == IF k = Len(ds) + 1 THEN Len(t) ELSE ds[k] - 1

\* SrcDst with the two addresses taken the other way round.
SrcDstSwapped(t, lo, hi) ==
    LET p1 == SearchIp(t, lo, hi)
        n1 == IpMatchLen(t, p1, hi)
        p2 == SearchIp(t, p1 + n1, hi)
        n2 == IpMatchLen(t, p2, hi)
    IN  IF p1 = 0 THEN <<>>
        ELSE IF p2 = 0 THEN <<>>
        ELSE <<SubSeq(t, p2, p2 + n2 - 1), SubSeq(t, p1, p1 + n1 - 1)>>

\* ips = re.findall(...); src, dst = ips[0], ips[1]: <<src, dst>>, or <<>> when
\* len(ips) < 2.  findall resumes after the end of the previous match.
SrcDst(t, lo, hi) ==
    LET p1 == SearchIp(t, lo, hi)
        n1 == IpMatchLen(t, p1, hi)
        p2 == SearchIp(t, p1 + n1, hi)
        n2 == IpMatchLen(t, p2, hi)
    IN  IF p1 = 0 THEN <<>>
        ELSE IF p2 = 0 THEN <<>>
        ELSE <<SubSeq(t, p1, p1 + n1 - 1), SubSeq(t, p2, p2 + n2 - 1)>>

\* s.strip() of t[lo..hi].
Strip(t, lo, hi) ==
    LET a == First(LAMBDA i : ~IsSpace(t[i]), lo, hi)
        b == Last(LAMBDA i : ~IsSpace(t[i]), lo, hi)
    IN  IF a = 0 THEN <<>> ELSE SubSeq(t, a, b)

\* lines = b.strip().split('\n')
\* msg = lines[0].split(']')[-1].strip() if ']' in lines[0] else lines[0]
Message(t, lo, hi) ==
    LET a == First(LAMBDA i : ~IsSpace(t[i]), lo, hi)
        b == Last(LAMBDA i : ~IsSpace(t[i]), lo, hi)
        nl == First(LAMBDA i : t[i] = "\n", a, b)
        e == IF nl = 0 THEN b ELSE nl - 1
        rb == Last(LAMBDA i : t[i] = "]", a, e)
    IN  IF rb = 0 THEN SubSeq(t, a, e) ELSE Strip(t, rb + 1, e)

\* One pass of the loop body over block t[lo..hi]: the alert appended, if any.
ParseBlock(t, lo, hi, lookup) ==
    LET ips == SrcDst(t, lo, hi)
        sid == SearchSid(t, lo, hi)
        ts == SearchTs(t, lo, hi)
    IN  IF Strip(t, lo, hi) = <<>> THEN <<>>
        ELSE IF ips = <<>> THEN <<>>
        ELSE << [timestamp |-> IF ts = 0 THEN UNKNOWN ELSE SubSeq(t, ts, ts + 13),
                 sid |-> IF sid = 0 THEN ZERO
                         ELSE SubSeq(t, sid, sid + SidMatchLen(t, sid, hi) - 1),
                 msg |-> Message(t, lo, hi),
                 src_ip |-> ips[1],
                 dst_ip |-> ips[2],
                 action |-> ALERT,
                 anomaly_score |-> ScoreFor(lookup, ips[1], ips[2])] >>

RECURSIVE ParseBlocks(_, _, _, _, _)
\* for b in blocks: ... enriched_alerts.append(...), over blocks klo..khi.
ParseBlocks(t, ds, lookup, klo, khi) ==
    IF klo > khi THEN <<>>
    ELSE IF klo = khi
         THEN ParseBlock(t, BlockLo(ds, klo), BlockHi(t, ds, klo), lookup)
    ELSE LET m == (klo + khi) \div 2
         IN  ParseBlocks(t, ds, lookup, klo, m) \o ParseBlocks(t, ds, lookup, m + 1, khi)

\* The loop of lines 84-118 over the whole text.
EnrichedAlerts(t, lookup) ==
    LET ds == DelimSeq(t, 1, Len(t))
    IN  ParseBlocks(t, ds, lookup, 1, Len(ds) + 1)

\* ------------------------------------------------------------ the flow log

REQUIRED_FEATURES ==
    {"dur", "spkts", "dpkts", "sbytes", "dbytes", "rate", "sttl", "dttl",
     "sload", "dload", "sloss", "dloss", "sinpkt", "dinpkt", "sjit", "djit",
     "swin", "stcpb", "dtcpb", "dwin", "tcprtt", "synack", "ackdat", "smean",
     "dmean", "trans_depth", "response_body_len", "ct_srv_src", "ct_state_ttl",
     "ct_dst_ltm", "ct_src_dport_ltm", "ct_dst_sport_ltm", "ct_dst_src_ltm",
     "is_ftp_login", "ct_ftp_cmd", "ct_flw_http_mthd", "ct_src_ltm", "ct_srv_dst",
     "is_sm_ips_ports", "protocol_type", "service", "flag"}

\* mapping = {'duration': 'dur', ...}; df.rename(columns=mapping)
Renamed(c) ==
    CASE c = "duration" -> "dur"
      [] c = "orig_bytes" -> "sbytes"
      [] c = "resp_bytes" -> "dbytes"
      [] c \in {"proto", "protocol"} -> "protocol_type"
      [] c \in {"conn_state", "state"} -> "flag"
      [] OTHER -> c

\* df[REQUIRED_FEATURES] of one row: a renamed column's value, 0 for a column the
\* log does not have.
Features(row) ==
    [f \in REQUIRED_FEATURES |->
        IF \E c \in DOMAIN row.cells : Renamed(c) = f
        THEN row.cells[CHOOSE c \in DOMAIN row.cells : Renamed(c) = f]
        ELSE 0]

RECURSIVE Digits(_)
\* The decimal digits of a natural number.
Digits(n) ==
    IF n < 10 THEN <<DIGITS[n + 1]>>
    ELSE Digits(n \div 10) \o <<DIGITS[(n % 10) + 1]>>

\* f"{x:.2f}" of x >= 0 given in thousandths (no sample value is a rounding tie).
Fmt2f(x) ==
    LET h == (x + 5) \div 10
    IN  Digits(h \div 100) \o DOT \o <<DIGITS[((h \div 10) % 10) + 1], DIGITS[(h % 10) + 1]>>

\* scores[i]: probs[:, 1] when the model has predict_proba, else predict(...); in
\* thousandths.  m.out is what the pickled model answers for a row's 'dur'.
ScoreOfRow(m, row) ==
    IF m.kind = "proba"
    THEN m.out[Features(row)["dur"]]
    ELSE 1000 * m.out[Features(row)["dur"]]

\* pd.read_csv raises on a row with more fields than the header (on_bad_lines='error').
ReadCsvRaises(rows) == \E i \in 1..Len(rows) : rows[i].shape = "extra"

RowKey(row) == HostPairKey(row.cells["id.orig_h"], row.cells["id.resp_h"])

\* {f"{r['id.orig_h']}-{r['id.resp_h']}": f"{scores[i]:.2f}" for i, r in df.iterrows()}:
\* a later row of the same host pair replaces the earlier one.
ScoreTable(m, rows) ==
    [k \in {RowKey(rows[i]) : i \in 1..Len(rows)} |->
        Fmt2f(ScoreOfRow(m, rows[Last(LAMBDA i : RowKey(rows[i]) = k, 1, Len(rows))]))]

\* get_ml_scores_from_zeek(): {} when the log or the model is missing, {} when any
\* step inside the try raises, else the table.
GetMlScores(log, m) ==
    IF ~log.exists \/ m.kind = "none" THEN <<>>
    ELSE IF ReadCsvRaises(log.rows) THEN <<>>
    ELSE ScoreTable(m, log.rows)

RECURSIVE NatOf(_, _, _)
\* int() of the digits s[lo..hi].
NatOf(s, lo, hi) ==
    IF lo > hi THEN 0
    ELSE 10 * NatOf(s, lo, hi - 1) + (CHOOSE d \in 0..9 : DIGITS[d + 1] = s[hi])

\* float(s) of a "<digits>.<two digits>" text, in hundredths.
ParseFloat(s) ==
    LET dot == First(LAMBDA i : s[i] = ".", 1, Len(s))
    IN  100 * NatOf(s, 1, dot - 1) + NatOf(s, dot + 1, dot + 2)

\* ------------------------------------------------------------- the summary

\* MostCommon without the sort: the first n keys in the order they were counted.
FirstCounted(keys, n) ==
    LET K == {keys[i] : i \in 1..Len(keys)}
        Count(k) == Cardinality({i \in 1..Len(keys) : keys[i] = k})
        Seen(k) == First(LAMBDA i : keys[i] = k, 1, Len(keys))
        Rank(k) == 1 + Cardinality({a \in K : Seen(a) < Seen(k)})
    IN  [p \in 1..Min2(n, Cardinality(K)) |->
            LET k == CHOOSE a \in K : Rank(a) = p
            IN  <<k, Count(k)>>]

\* Counter(keys).most_common(n): the n keys of highest count as <<key, count>>,
\* highest first; equal counts stay in the order the keys were first counted.
MostCommon(keys, n) ==
    LET K == {keys[i] : i \in 1..Len(keys)}
        Count(k) == Cardinality({i \in 1..Len(keys) : keys[i] = k})
        Seen(k) == First(LAMBDA i : keys[i] = k, 1, Len(keys))
        Before(a, b) ==
            \/ Count(a) > Count(b)
            \/ Count(a) = Count(b) /\ Seen(a) < Seen(b)
        Rank(k) == 1 + Cardinality({a \in K : Before(a, k)})
    IN  [p \in 1..Min2(n, Cardinality(K)) |->
            LET k == CHOOSE a \in K : Rank(a) = p
            IN  <<k, Count(k)>>]

\* NewestFirst without the reversal.
OldestFirst(alerts) == Prefix(alerts, DisplayLimit)

\* final_alerts = enriched_alerts[::-1][:100]
NewestFirst(alerts) == Prefix(Reversed(alerts), DisplayLimit)

\* summary = Counter(a['msg'] for a in final_alerts).most_common(5)
Summary(final_alerts) ==
    MostCommon([i \in 1..Len(final_alerts) |-> final_alerts[i].msg], TopK)

\* ------------------------------------------------- what the sensor writes

Txt(s) == [k |-> "txt", s |-> s]
Ip(s) == [k |-> "ip", s |-> s]
Delim == [k |-> "delim", s |-> DELIM]

\* ":<port>", nothing when the port is omitted.
PortText(port) == IF port = NO_PORT THEN <<>> ELSE COLON \o port

\* One alert as the sensor writes it, piece by piece:
\*   fast   <ts> [**] [<id>] <msg> [**] {TCP} <src>[:<sp>] -> <dst>[:<dp>]\n
\*   full   [**] [<id>] <msg> [**]\n[Priority: 0]\n<ts> <src>[:<sp>] -> <dst>[:<dp>]\nTCP TTL:64\n\n
\*   noise  Bound to <src>\n          (a log line that is no alert)
LineItems(l) ==
    CASE l.fmt = "fast" ->
            << Txt(l.ts \o SP), Delim, Txt(l.sidmsg), Delim, Txt(PROTO),
               Ip(l.src), Txt(PortText(l.sport) \o ARROW),
               Ip(l.dst), Txt(PortText(l.dport) \o NL) >>
      [] l.fmt = "full" ->
            << Delim, Txt(l.sidmsg), Delim, Txt(PRIORITY \o l.ts \o SP),
               Ip(l.src), Txt(PortText(l.sport) \o ARROW),
               Ip(l.dst), Txt(PortText(l.dport) \o TTL) >>
      [] OTHER ->
            << Txt(NOISE), Ip(l.src), Txt(NL) >>

RECURSIVE Concat(_, _, _)
\* ss[lo] \o ... \o ss[hi]
Concat(ss, lo, hi) ==
    IF lo > hi THEN <<>>
    ELSE IF lo = hi THEN ss[lo]
    ELSE LET m == (lo + hi) \div 2
         IN  Concat(ss, lo, m) \o Concat(ss, m + 1, hi)

FileItems(lines) == Concat([i \in 1..Len(lines) |-> LineItems(lines[i])], 1, Len(lines))

\* f.read(): the characters of the file.
FileText(lines) ==
    LET items == FileItems(lines)
    IN  Concat([j \in 1..Len(items) |-> items[j].s], 1, Len(items))

FAST_AB == [fmt |-> "fast", ts |-> TS_1, sidmsg |-> SID_MSG_SCAN,
            src |-> IP_A, sport |-> PORT_443, dst |-> IP_B, dport |-> PORT_80]
FAST_BA == [fmt |-> "fast", ts |-> TS_2, sidmsg |-> SID_MSG_FLOOD,
            src |-> IP_B, sport |-> NO_PORT, dst |-> IP_A, dport |-> NO_PORT]
FULL_BA == [fmt |-> "full", ts |-> TS_2, sidmsg |-> SID_MSG_FLOOD,
            src |-> IP_B, sport |-> PORT_80, dst |-> IP_A, dport |-> PORT_443]
NOISE_B == [fmt |-> "noise", ts |-> <<>>, sidmsg |-> <<>>,
            src |-> IP_B, sport |-> NO_PORT, dst |-> <<>>, dport |-> NO_PORT]

LineChoices == {FAST_AB, FAST_BA, FULL_BA, NOISE_B}

\* A fast alert from source port k (one digit): alerts of different k differ in
\* their address part, which is what the summary counts.
KeyedLine(k) == [FAST_AB EXCEPT !.sport = <<DIGITS[k + 1]>>]

\* --------------------------------------------------- what the flow logger writes

FlowRow(orig, resp, duration, shape) ==
    [shape |-> shape,
     cells |-> [c \in {"ts", "id.orig_h", "id.resp_h", "duration"} |->
                  CASE c = "id.orig_h" -> orig
                    [] c = "id.resp_h" -> resp
                    [] c = "duration" -> duration
                    [] OTHER -> 1]]

RowChoices ==
    { FlowRow(IP_A, IP_B, 0, "ok"),
      FlowRow(IP_B, IP_A, 1, "ok"),
      FlowRow(IP_A, IP_B, 1, "extra") }

\* The pickled model: absent, a classifier with predict_proba (out: the probability
\* of the malicious class, in thousandths), or one with predict only (out: the
\* class label).
ModelChoices ==
    { [kind |-> "none", out |-> [d \in 0..1 |-> 0]],
      [kind |-> "proba", out |-> [d \in 0..1 |-> IF d = 0 THEN 4 ELSE 970]],
      [kind |-> "predict", out |-> [d \in 0..1 |-> d]],
      [kind |-> "predict", out |-> [d \in 0..1 |-> 2 * d]] }

\* ------------------------------------------------------------------ states

NoResult == [status |-> "none", alerts |-> <<>>, total |-> 0, third |-> 0, summary |-> <<>>]
NoFile == [exists |-> FALSE, lines |-> <<>>]

Init ==
    /\ alertFile = NoFile
    /\ zeekLog = [exists |-> FALSE, rows |-> <<>>]
    /\ model \in ModelChoices
    /\ pc = "idle"
    /\ ml_lookup = <<>>
    /\ enriched_alerts = <<>>
    /\ result = NoResult

\* ----------------------------------------------------------- the environment

\* The sensor appends one alert (opening the file when it is not there), also
\* while an invocation is between os.path.exists and open.
SensorWrite ==
    /\ pc \in {"idle", "checked"}
    /\ Len(alertFile.lines) < MaxWrites
    /\ \E l \in LineChoices :
          alertFile' = [exists |-> TRUE, lines |-> Append(alertFile.lines, l)]
    /\ UNCHANGED <<zeekLog, model, pc, ml_lookup, enriched_alerts, result>>

\* Log rotation moves the alert file away; it may happen while an invocation is
\* between os.path.exists and open.
SensorRotate ==
    /\ pc \in {"idle", "checked"}
    /\ alertFile.exists
    /\ alertFile' = NoFile
    /\ UNCHANGED <<zeekLog, model, pc, ml_lookup, enriched_alerts, result>>

\* Log rotation by truncation: the file stays, its content goes.
SensorTruncate ==
    /\ pc \in {"idle", "checked"}
    /\ alertFile.exists
    /\ alertFile.lines # <<>>
    /\ alertFile' = [exists |-> TRUE, lines |-> <<>>]
    /\ UNCHANGED <<zeekLog, model, pc, ml_lookup, enriched_alerts, result>>

\* The flow logger appends one row under the header.  conn.log is read only at the
\* start of an invocation, so writes during one change nothing it sees.
ZeekWrite ==
    /\ pc = "idle"
    /\ Len(zeekLog.rows) < MaxRows
    /\ \E r \in RowChoices :
          zeekLog' = [exists |-> TRUE, rows |-> Append(zeekLog.rows, r)]
    /\ UNCHANGED <<alertFile, model, pc, ml_lookup, enriched_alerts, result>>

ZeekRotate ==
    /\ pc = "idle"
    /\ zeekLog.exists
    /\ zeekLog' = [exists |-> FALSE, rows |-> <<>>]
    /\ UNCHANGED <<alertFile, model, pc, ml_lookup, enriched_alerts, result>>

\* ------------------------------------------------ parse_snort_and_correlate

\* Lines 76-78: the score table, then the existence check.
Begin ==
    /\ pc = "idle"
    /\ ml_lookup' = GetMlScores(zeekLog, model)
    /\ IF ~alertFile.exists
       THEN /\ result' = [status |-> "returned", alerts |-> <<>>, total |-> 0,
                          third |-> 0, summary |-> <<>>]
            /\ pc' = "done"
       ELSE /\ result' = result
            /\ pc' = "checked"
    /\ UNCHANGED <<alertFile, zeekLog, model, enriched_alerts>>

\* Lines 80-126: open (FileNotFoundError when the file has gone), read, parse,
\* reverse, summarise, return.
ReadAndParse ==
    /\ pc = "checked"
    /\ IF ~alertFile.exists
       THEN /\ result' = [status |-> "raised", alerts |-> <<>>, total |-> 0,
                          third |-> 0, summary |-> <<>>]
            /\ enriched_alerts' = enriched_alerts
       ELSE LET parsed == EnrichedAlerts(FileText(alertFile.lines), ml_lookup)
                final_alerts == NewestFirst(parsed)
            IN  /\ enriched_alerts' = parsed
                /\ result' = [status |-> "returned", alerts |-> final_alerts,
                              total |-> Len(parsed), third |-> 0,
                              summary |-> Summary(final_alerts)]
    /\ pc' = "done"
    /\ UNCHANGED <<alertFile, zeekLog, model, ml_lookup>>

\* The caller has the result; the locals are gone.
Return ==
    /\ pc = "done"
    /\ pc' = "idle"
    /\ ml_lookup' = <<>>
    /\ enriched_alerts' = <<>>
    /\ result' = NoResult
    /\ UNCHANGED <<alertFile, zeekLog, model>>

Next ==
    \/ SensorWrite
    \/ SensorRotate
    \/ SensorTruncate
    \/ ZeekWrite
    \/ ZeekRotate
    \/ Begin
    \/ ReadAndParse
    \/ Return

Spec == Init /\ [][Next]_vars

\* ------------------------------------- the summary over many kinds of alert

\* The sensor appends a fast alert from source port k.  Alerts are told apart by
\* equality only, so the first alert of a new kind takes the least unused k.
SensorWriteKeyed ==
    /\ pc \in {"idle", "checked"}
    /\ Len(alertFile.lines) < MaxKeyedWrites
    /\ \E k \in 1..NumKeys :
          /\ k <= 1 + Cardinality({alertFile.lines[i].sport : i \in 1..Len(alertFile.lines)})
          /\ alertFile' = [exists |-> TRUE, lines |-> Append(alertFile.lines, KeyedLine(k))]
    /\ UNCHANGED <<zeekLog, model, pc, ml_lookup, enriched_alerts, result>>

InitTopK == Init /\ model.kind = "none"

NextTopK ==
    \/ SensorWriteKeyed
    \/ Begin
    \/ ReadAndParse
    \/ Return

SpecTopK == InitTopK /\ [][NextTopK]_vars

\* ------------------------------------------- more alerts than the dashboard shows

\* A file of up to MaxBursts bursts, each 1 or BurstSize copies of one line.
BurstChoices == {FAST_AB, FAST_BA, NOISE_B} \X {1, BurstSize}

BurstLines(bs) ==
    Concat([i \in 1..Len(bs) |-> [j \in 1..bs[i][2] |-> bs[i][1]]], 1, Len(bs))

InitLong ==
    /\ \E n \in 0..MaxBursts :
          \E bs \in [1..n -> BurstChoices] :
              alertFile = [exists |-> TRUE, lines |-> BurstLines(bs)]
    /\ zeekLog = [exists |-> FALSE, rows |-> <<>>]
    /\ model \in {m \in ModelChoices : m.kind = "none"}
    /\ pc = "idle"
    /\ ml_lookup = <<>>
    /\ enriched_alerts = <<>>
    /\ result = NoResult

NextLong ==
    \/ Begin
    \/ ReadAndParse
    \/ Return

SpecLong == InitLong /\ [][NextLong]_vars

\* ------------------------------------------------------------ the claims

Returned == pc = "done" /\ result.status = "returned"

\* The file as the sensor wrote it, cut at its delimiters: block k holds the pieces
\* items[PieceLo..PieceHi].
RECURSIVE DelimPieces(_, _, _)
DelimPieces(items, lo, hi) ==
    IF lo > hi THEN <<>>
    ELSE IF lo = hi THEN (IF items[lo].k = "delim" THEN <<lo>> ELSE <<>>)
    ELSE LET m == (lo + hi) \div 2
         IN  DelimPieces(items, lo, m) \o DelimPieces(items, m + 1, hi)

PieceLo(ds, k) == IF k = 1 THEN 1 ELSE ds[k - 1] + 1
PieceHi(items, ds, k) == IF k = Len(ds) + 1 THEN Len(items) ELSE ds[k] - 1

\* How many IPv4 literals the sensor wrote into pieces lo..hi.
IpCount(items, lo, hi) == Cardinality({i \in lo..hi : items[i].k = "ip"})

\* The first and second IPv4 literal of pieces lo..hi, when there are two.
FirstTwoIps(items, lo, hi) ==
    LET p1 == First(LAMBDA i : items[i].k = "ip", lo, hi)
        p2 == First(LAMBDA i : items[i].k = "ip", p1 + 1, hi)
    IN  IF IpCount(items, lo, hi) >= 2 THEN << <<items[p1].s, items[p2].s>> >> ELSE <<>>

RECURSIVE PairsOfBlocks(_, _, _, _)
PairsOfBlocks(items, ds, klo, khi) ==
    IF klo > khi THEN <<>>
    ELSE IF klo = khi
         THEN FirstTwoIps(items, PieceLo(ds, klo), PieceHi(items, ds, klo))
    ELSE LET m == (klo + khi) \div 2
         IN  PairsOfBlocks(items, ds, klo, m) \o PairsOfBlocks(items, ds, m + 1, khi)

\* <<first, second>> IPv4 literal of every block that holds at least two, in file order.
ExpectedPairs ==
    LET items == FileItems(alertFile.lines)
        ds == DelimPieces(items, 1, Len(items))
    IN  PairsOfBlocks(items, ds, 1, Len(ds) + 1)

\* The numbers of IPv4 literals of the blocks of the file.
BlockIpCounts ==
    LET items == FileItems(alertFile.lines)
        ds == DelimPieces(items, 1, Len(items))
    IN  {IpCount(items, PieceLo(ds, k), PieceHi(items, ds, k)) : k \in 1..(Len(ds) + 1)}

Forward(a) == HostPairKey(a.src_ip, a.dst_ip)
Reverse(a) == HostPairKey(a.dst_ip, a.src_ip)

\* C1: the score of a returned alert is the table's entry under "src-dst" whenever
\* that key is present (also when "dst-src" is), the entry under "dst-src" when only
\* that one is present, and the no-flow default when neither is.
C1_ForwardThenReverse ==
    Returned =>
        \A i \in 1..Len(result.alerts) :
            LET a == result.alerts[i]
            IN  /\ Forward(a) \in DOMAIN ml_lookup
                      => a.anomaly_score = ml_lookup[Forward(a)]
                /\ Forward(a) \notin DOMAIN ml_lookup /\ Reverse(a) \in DOMAIN ml_lookup
                      => a.anomaly_score = ml_lookup[Reverse(a)]
                /\ Forward(a) \notin DOMAIN ml_lookup /\ Reverse(a) \notin DOMAIN ml_lookup
                      => a.anomaly_score = NO_FLOW_SCORE

\* C1's case: an alert whose forward entry is "0.00" and whose reverse entry differs.
C1_Witness ==
    /\ Returned
    /\ \E i \in 1..Len(result.alerts) :
          LET a == result.alerts[i]
          IN  /\ Forward(a) \in DOMAIN ml_lookup
              /\ Reverse(a) \in DOMAIN ml_lookup
              /\ ml_lookup[Forward(a)] = <<"0",".","0","0">>
              /\ ml_lookup[Reverse(a)] # ml_lookup[Forward(a)]
              /\ a.anomaly_score = ml_lookup[Forward(a)]

\* C2: the anomaly_score of every returned alert is a value in [0,1] (0..100
\* hundredths), whatever the model returns.
C2_ScoreInUnitInterval ==
    Returned =>
        \A i \in 1..Len(result.alerts) :
            /\ 0 <= ParseFloat(result.alerts[i].anomaly_score)
            /\ ParseFloat(result.alerts[i].anomaly_score) <= 100

\* C3: an alert with neither host-pair key in the table gets a default score
\* between 0.85 and 0.89.
C3_DefaultBetween85And89 ==
    Returned =>
        \A i \in 1..Len(result.alerts) :
            LET a == result.alerts[i]
            IN  Forward(a) \notin DOMAIN ml_lookup /\ Reverse(a) \notin DOMAIN ml_lookup
                    => /\ 85 <= ParseFloat(a.anomaly_score)
                       /\ ParseFloat(a.anomaly_score) <= 89

PortOrZero(port) == IF port = NO_PORT THEN ZERO ELSE port

\* C4: in a file of compact-form lines, every line yields exactly one alert, with
\* the line's addresses and the line's ports ("0" for an omitted port).
C4_CompactLineFields ==
    Returned /\ (\A j \in 1..Len(alertFile.lines) : alertFile.lines[j].fmt = "fast") =>
        /\ Len(result.alerts) = Len(alertFile.lines)
        /\ \A i \in 1..Len(result.alerts) :
              LET a == result.alerts[i]
                  l == alertFile.lines[Len(alertFile.lines) - i + 1]
              IN  /\ a.src_ip = l.src
                  /\ a.dst_ip = l.dst
                  /\ GetOr(a, "src_port", ZERO) = PortOrZero(l.sport)
                  /\ GetOr(a, "dst_port", ZERO) = PortOrZero(l.dport)

\* C5: with the model loaded and the flow log there, the score table holds an entry
\* for the host pair of every valid row, whatever other rows the log holds.
C5_ValidRowsKept ==
    pc # "idle" /\ zeekLog.exists /\ model.kind # "none" =>
        \A i \in 1..Len(zeekLog.rows) :
            zeekLog.rows[i].shape = "ok" => RowKey(zeekLog.rows[i]) \in DOMAIN ml_lookup

\* C6: an invocation of parse_snort_and_correlate never raises.
C6_NeverRaises == result.status # "raised"

\* C7: every count of the summary is the number of all parsed alerts with that key,
\* and no key left out has more alerts than a listed one.
C7_SummaryOverAllAlerts ==
    Returned =>
        LET all == [i \in 1..Len(enriched_alerts) |-> enriched_alerts[i].msg]
            CountAll(k) == Cardinality({i \in 1..Len(all) : all[i] = k})
            listed == {result.summary[p][1] : p \in 1..Len(result.summary)}
        IN  /\ \A p \in 1..Len(result.summary) :
                  result.summary[p][2] = CountAll(result.summary[p][1])
            /\ \A i \in 1..Len(all) :
                  all[i] \notin listed =>
                      \A p \in 1..Len(result.summary) :
                          CountAll(all[i]) <= result.summary[p][2]

ReturnedKeys == {result.alerts[i].msg : i \in 1..Len(result.alerts)}
FirstSeen(k) == First(LAMBDA i : result.alerts[i].msg = k, 1, Len(result.alerts))

\* C8: the summary has at most TopK entries with distinct keys, holds every key
\* when there are no more than TopK, has non-increasing counts, and among keys of
\* equal count lists first the one that comes first in the newest-first alert list.
C8_TopKSummary ==
    Returned =>
        LET s == result.summary
        IN  /\ Len(s) <= TopK
            /\ \A p, q \in 1..Len(s) : p # q => s[p][1] # s[q][1]
            /\ \A p \in 1..Len(s) : s[p][1] \in ReturnedKeys
            /\ Cardinality(ReturnedKeys) <= TopK => Len(s) = Cardinality(ReturnedKeys)
            /\ \A p, q \in 1..Len(s) :
                  p < q => \/ s[p][2] > s[q][2]
                           \/ s[p][2] = s[q][2] /\ FirstSeen(s[p][1]) < FirstSeen(s[q][1])

\* C8's case: more than TopK keys, and TopK listed with a step down in count and
\* a tie among them.
C8_Witness ==
    /\ Returned
    /\ Cardinality(ReturnedKeys) > TopK
    /\ Len(result.summary) = TopK
    /\ \E p \in 1..(TopK - 1) : result.summary[p][2] > result.summary[p + 1][2]
    /\ \E p \in 1..(TopK - 1) : result.summary[p][2] = result.summary[p + 1][2]

\* C9: the returned list is the alerts of the file in reverse file order, none
\* dropped, duplicated or moved (up to the DisplayLimit newest).
C9_NewestFirst ==
    Returned =>
        LET exp == ExpectedPairs
        IN  /\ Len(result.alerts) = Min2(Len(exp), DisplayLimit)
            /\ \A i \in 1..Len(result.alerts) :
                  <<result.alerts[i].src_ip, result.alerts[i].dst_ip>>
                      = exp[Len(exp) - i + 1]

\* C9's case: more alerts in the file than are returned, and two neighbours of
\* the returned list that differ.
C9_Witness ==
    /\ Returned
    /\ result.total > DisplayLimit
    /\ Len(result.alerts) = DisplayLimit
    /\ \E i \in 1..(DisplayLimit - 1) :
          result.alerts[i].src_ip # result.alerts[i + 1].src_ip

\* C10: the blocks that yield an alert are those with at least two IPv4 literals,
\* one alert each, with the block's first literal as source and second as
\* destination.
C10_TwoLiteralsPerAlert ==
    Returned =>
        LET exp == ExpectedPairs
        IN  /\ result.total = Len(exp)
            /\ Len(enriched_alerts) = Len(exp)
            /\ \A k \in 1..Len(exp) :
                  /\ enriched_alerts[k].src_ip = exp[k][1]
                  /\ enriched_alerts[k].dst_ip = exp[k][2]

\* C10's case: a block with one literal (no alert) beside a block that yields an alert.
C10_Witness ==
    /\ Returned
    /\ result.total >= 1
    /\ 1 \in BlockIpCounts
    /\ \E n \in BlockIpCounts : n >= 2

====
